---- MODULE Spec2Model ----
(***************************************************************************)
(* Model of arcdps_updater.py: one invocation of the script fetches the    *)
(* arcdps page, extracts the changelog, compares it with the persisted     *)
(* last_changes.json, posts to the Discord webhooks when the newest entry  *)
(* changed, and rewrites last_changes.json.  The disk (last_changes.json   *)
(* and last_changes.json.old) and the clock survive between invocations.   *)
(***************************************************************************)
EXTENDS Integers, Sequences, FiniteSets, TLC

\* ---------------------------------------------------------------- bounds
MaxLines == 2      \* changelog lines on a fetched page
MaxSubs == 2       \* records in webhooks.json
MaxTime == 2       \* hours the clock can advance

\* ---------------------------------------------------------------- strings
\* A Python str is a sequence of tokens: a word or the whitespace token WS.
WS == "\n"
Words == {"a", "b"}
\* Python's None (never a str)
None == <<"None">>

RECURSIVE lstrip(_)
lstrip(s) == IF s # <<>> /\ Head(s) = WS THEN lstrip(Tail(s)) ELSE s

RECURSIVE rstrip(_)
rstrip(s) == IF s # <<>> /\ s[Len(s)] = WS THEN rstrip(SubSeq(s, 1, Len(s) - 1)) ELSE s

\* str.strip()
strip(s) == rstrip(lstrip(s))

\* Python list slice l[lo:hi] with lo >= 0 and hi <= 0 counted from the end
Slice(l, lo, hi) == SubSeq(l, lo + 1, Len(l) + hi)

\* ---------------------------------------------------------------- documents
\* A parsed page is the sequence of its elements in document order
\* (bs4's next_elements): tags and the text nodes inside and between them.
Tag(n, s) == [name |-> n, string |-> s]
NavigableString(s) == [name |-> None, string |-> s]

\* <b>label</b>: the tag, then its only child
Bold(label) == << Tag("b", <<label>>), NavigableString(<<label>>) >>
\* <br> followed by "\n" + line text
Line(w) == << Tag("br", None), NavigableString(<<WS, w>>) >>

RECURSIVE Lines(_)
Lines(ws) == IF ws = <<>> THEN <<>> ELSE Line(Head(ws)) \o Lines(Tail(ws))

SeqsUpTo(S, n) == UNION { [1..k -> S] : k \in 0..n }

\* The pages the site can serve: the "changes" header (if markers > 0), the
\* changelog lines, optionally a trailing newline text node and the
\* "download" header, and a second "changes" header below the download
\* section (if markers = 2).
PageShapes == { p \in [markers : 0..2, lines : SeqsUpTo(Words, MaxLines),
                        newline : BOOLEAN, download : BOOLEAN] :
                   p.markers = 2 => p.download }

Render(p) == (IF p.markers > 0 THEN Bold("changes") ELSE <<>>)
             \o Lines(p.lines)
             \o (IF p.newline THEN << Tag("br", None), NavigableString(<<WS>>) >> ELSE <<>>)
             \o (IF p.download THEN Bold("download") ELSE <<>>)
             \o (IF p.markers > 1 THEN Bold("changes") ELSE <<>>)

Pages == { Render(p) : p \in PageShapes }

\* ---------------------------------------------------------------- parse_html
\* soup.find("b", string="changes"): index of the first match, 0 for None
RECURSIVE find(_, _, _, _)
find(doc, n, s, i) ==
    IF i > Len(doc) THEN 0
    ELSE IF doc[i].name = n /\ doc[i].string = s THEN i
    ELSE find(doc, n, s, i + 1)

\* the for loop over soup.next_elements, from element i on
RECURSIVE collect(_, _, _)
collect(doc, i, acc) ==
    IF i > Len(doc) THEN acc
    ELSE LET element == doc[i]
             acc2 == IF element.string # None
                     THEN Append(acc, strip(element.string)) ELSE acc
         IN IF element.name = "b" /\ element.string = <<"download">>
            THEN acc2
            ELSE collect(doc, i + 1, acc2)

\* the elements soup.find_all("b", string="changes") would return
Markers(doc) == Cardinality({ i \in 1..Len(doc) : doc[i].name = "b" /\ doc[i].string = <<"changes">> })

parse_html_ok(doc) == find(doc, "b", <<"changes">>, 1) # 0

parse_html(doc) ==
    LET soup == find(doc, "b", <<"changes">>, 1)
        collected == collect(doc, soup + 1, <<>>)
    IN Slice(collected, 1, -2)

\* ---------------------------------------------------------------- the disk
\* Content of last_changes.json (and of last_changes.json.old):
\*   absent   no such file
\*   corrupt  not JSON (json.load raises JSONDecodeError); raw names the bytes
\*   nondict  JSON, but not an object (no .keys())
\*   dict     a JSON object with the keys `keys`
BadTs == -1        \* a "timestamp" value datetime.fromisoformat rejects
Truncated == "truncated"     \* raw bytes left behind by a write that failed part-way

Absent == [kind |-> "absent", raw |-> "", keys |-> {}, changes |-> <<>>, timestamp |-> 0]
Corrupt(r) == [kind |-> "corrupt", raw |-> r, keys |-> {}, changes |-> <<>>, timestamp |-> 0]
NonDict == [kind |-> "nondict", raw |-> "", keys |-> {}, changes |-> <<>>, timestamp |-> 0]
Dict(ks, c, t) == [kind |-> "dict", raw |-> "", keys |-> ks,
                   changes |-> IF "changes" \in ks THEN c ELSE <<>>,
                   timestamp |-> IF "timestamp" \in ks THEN t ELSE 0]

\* json.dump({"changes": changelog, "timestamp": dt.now().isoformat()}, f)
Dumped(changelog, t) == Dict({"changes", "timestamp"}, changelog, t)

\* Entries are token sequences; a one-word entry:
Entry(w) == <<w>>
InitChanges == SeqsUpTo({Entry(w) : w \in Words}, 2)

InitFiles == {Absent, Corrupt("garbage"), NonDict}
             \cup { Dict(ks, <<Entry("a")>>, 0) : ks \in (SUBSET {"changes", "timestamp"}) \ {{"changes", "timestamp"}} }
             \cup { Dumped(c, t) : c \in InitChanges, t \in {0, BadTs} }
InitBackups == {Absent, Corrupt("older garbage")}

\* write_last_changes: the outcomes of open(..., "w") + json.dump.
\* Success replaces the content.  A failure raises inside the with block:
\* either open() failed and the file is as it was, or the file was opened
\* (truncated) and holds a proper prefix of the JSON text.
\* mutant: the newest entry is left out of the dump
WriteOk_tail(changelog, t) == [ok |-> TRUE, file |-> Dumped(IF changelog = <<>> THEN <<>> ELSE Tail(changelog), t)]
WriteOk(changelog, t) == [ok |-> TRUE, file |-> Dumped(changelog, t)]
\* mutant: a write that fails part-way leaves a well-formed record
WriteFailures_partialValid(f) == { [ok |-> FALSE, file |-> f], [ok |-> FALSE, file |-> Dumped(<<>>, 0)] }
WriteFailures(f) == { [ok |-> FALSE, file |-> f], [ok |-> FALSE, file |-> Corrupt(Truncated)] }
write_last_changes(f, changelog, t) == {WriteOk(changelog, t)} \cup WriteFailures(f)

\* os.rename(last_changes_file, last_changes_file + ".old"): the pairs
\* <<file, backup>> after the call.  With no backup the file moves.  With a
\* backup in place POSIX replaces it and Windows raises FileExistsError,
\* which the caller passes over.
\* mutant: the rename is skipped
rename_skipped(f, b) == { <<f, b>> }
rename(f, b) ==
    IF b.kind = "absent" THEN { <<Absent, f>> }
    ELSE { <<Absent, f>>, <<f, b>> }

\* ---------------------------------------------------------------- diff
\* mutant: compares with the oldest persisted entry
hasUpdate_oldest(changelog, last) == changelog[1] # last.changes[Len(last.changes)]
\* mutant: compares the whole lists
hasUpdate_whole(changelog, last) == changelog # last.changes
\* test_for_update's return value
hasUpdate(changelog, last) == changelog[1] # last.changes[1]

\* mutant: the loop stops only at the newest persisted entry
RECURSIVE newEntries_newestOnly(_, _)
newEntries_newestOnly(changelog, old_changelog) ==
    IF changelog = <<>> THEN <<>>
    ELSE IF old_changelog # <<>> /\ old_changelog[1] = Head(changelog)
         THEN <<>>
         ELSE Head(changelog) \o <<WS>> \o newEntries_newestOnly(Tail(changelog), old_changelog)
\* the `changes` string send_update_message builds
RECURSIVE newEntries(_, _)
newEntries(changelog, old_changelog) ==
    IF changelog = <<>> THEN <<>>
    ELSE IF \E k \in 1..Len(old_changelog) : old_changelog[k] = Head(changelog)
         THEN <<>>
         ELSE Head(changelog) \o <<WS>> \o newEntries(Tail(changelog), old_changelog)

\* hours_since_last_test > 1
Stale(t, ts) == t - ts > 1

\* ---------------------------------------------------------------- state
VARIABLES
    file,               \* last_changes.json
    backup,             \* last_changes.json.old
    now,                \* the clock, in hours
    pc,                 \* where the current invocation of __main__ is
    abortAt,            \* the step that ended an aborted run
    changelog,          \* parse_html's result
    last_changes_data,  \* load_last_changes' result
    update_available,   \* test_for_update's result
    warned,             \* the staleness warning was logged
    webhooks,           \* load_webhooks' result
    changes,            \* the new entries put in the message
    report,             \* the POSTs made so far, in order, with their outcome
    file0,              \* last_changes.json when the run started
    backup0,            \* last_changes.json.old when the run started
    prev,               \* how the previous run ended
    marker_count,       \* "changes" headers in the page the run fetched
    checksum_policy     \* what config.ini said of the checksum when its download failed

disk == <<file, backup>>
locals == <<changelog, last_changes_data, update_available, warned,
            webhooks, changes, report>>
vars == <<file, backup, now, pc, abortAt, changelog, last_changes_data,
          update_available, warned, webhooks, changes, report, file0, backup0, prev,
          marker_count, checksum_policy>>

Ended == {"idle", "Done", "Seeded", "Aborted"}
\* what the next run remembers of the run before it: whether it wrote the
\* file, the changelog it wrote and whether it had POSTed to a webhook
NoRun == [wrote |-> FALSE, changelog |-> <<>>, attempted |-> FALSE]
Summary == IF pc \in {"Done", "Seeded"}
           THEN [wrote |-> TRUE, changelog |-> changelog, attempted |-> report # <<>>]
           ELSE NoRun

\* what a requests.post to one webhook can end in
\* mutant: the loop has no `except requests.exceptions.Timeout`
Caught_noTimeout == {"Rejected"}
Caught == {"TimedOut", "Rejected"}          \* except Timeout / except HTTPError
Outcomes == {"Delivered", "TimedOut", "Rejected", "ConnectionError"}

\* webhooks.json is a list of records; "nokey" is a record without the key
\* "username".  The loop never reads the records after such a record, so
\* the lists end with it.
SubscriberKinds == {"ok", "nokey"}
WebhookLists == { ws \in SeqsUpTo(SubscriberKinds, MaxSubs) :
                    \A k \in 1..Len(ws) - 1 : ws[k] = "ok" }

\* what a configuration could say of the checksum
ChecksumPolicies == {"mandatory", "optional"}

Init ==
    /\ file \in InitFiles
    /\ backup \in InitBackups
    /\ now = 0
    /\ pc = "idle"
    /\ abortAt = ""
    /\ changelog = <<>>
    /\ last_changes_data = Absent
    /\ update_available = FALSE
    /\ warned = FALSE
    /\ webhooks = <<>>
    /\ changes = <<>>
    /\ report = <<>>
    /\ file0 = file
    /\ backup0 = backup
    /\ prev = NoRun
    /\ marker_count = 0
    /\ checksum_policy = "unread"

Abort(at) == pc' = "Aborted" /\ abortAt' = at

\* the scheduler invokes the script, some hours after the last run ended:
\* a fresh process
StartRun ==
    /\ pc \in Ended
    /\ \E t \in now..MaxTime : now' = t
    /\ pc' = "download"
    /\ abortAt' = ""
    /\ changelog' = <<>>
    /\ last_changes_data' = Absent
    /\ update_available' = FALSE
    /\ warned' = FALSE
    /\ webhooks' = <<>>
    /\ changes' = <<>>
    /\ report' = <<>>
    /\ file0' = file
    /\ backup0' = backup
    /\ prev' = Summary
    /\ marker_count' = 0
    /\ checksum_policy' = "unread"
    /\ UNCHANGED <<file, backup>>

\* download_website_content: Timeout or HTTPError (sys.exit(1)), or another
\* requests exception, which __main__ logs as unexpected
DownloadFail ==
    /\ pc = "download"
    /\ Abort("download")
    /\ UNCHANGED <<disk, now, locals, file0, backup0, prev, marker_count, checksum_policy>>

\* download_website_content returns a page in which soup.find finds the
\* marker: changelog = parse_html(response)
ParseHtmlOk ==
    /\ pc = "download"
    /\ \E page \in Pages :
          /\ parse_html_ok(page)
          /\ changelog' = parse_html(page)
          /\ marker_count' = Markers(page)
    /\ pc' = "load"
    /\ UNCHANGED <<disk, now, abortAt, last_changes_data, update_available,
                   warned, webhooks, changes, report, file0, backup0, prev, checksum_policy>>

\* mutant: the handler of the extraction error writes the (empty) changelog
ParseHtmlFail_writes ==
    /\ pc = "download"
    /\ \E page \in Pages : ~parse_html_ok(page)
    /\ file' = Dumped(<<>>, now)
    /\ Abort("parse")
    /\ UNCHANGED <<backup, now, locals, file0, backup0, prev, marker_count, checksum_policy>>

\* soup.find returned None: AttributeError on soup.next_elements
ParseHtmlFail ==
    /\ pc = "download"
    /\ \E page \in Pages : ~parse_html_ok(page)
    /\ Abort("parse")
    /\ UNCHANGED <<disk, now, locals, file0, backup0, prev, marker_count, checksum_policy>>

\* ---------------------------------------------------------------- load_last_changes
\* mutant: only the timestamp key is tested
HasShape_timestampOnly(f) == "timestamp" \in f.keys
HasShape(f) == {"timestamp", "changes"} \subseteq f.keys

\* the file is a JSON object with both keys: it is returned
LoadOk ==
    /\ pc = "load"
    /\ file.kind = "dict" /\ HasShape(file)
    /\ last_changes_data' = file
    /\ pc' = "test"
    /\ UNCHANGED <<disk, now, abortAt, changelog, update_available,
                   warned, webhooks, changes, report, file0, backup0, prev, marker_count, checksum_policy>>

\* mutant: no sys.exit(1) after the file is created
LoadNotFound_noExit ==
    /\ pc = "load"
    /\ \/ file.kind = "absent"
       \/ file.kind = "dict" /\ ~HasShape(file)
    /\ file' = Dumped(changelog, now)
    /\ last_changes_data' = file'
    /\ pc' = "test"
    /\ UNCHANGED <<backup, now, abortAt, changelog, update_available,
                   warned, webhooks, changes, report, file0, backup0, prev, marker_count, checksum_policy>>

\* FileNotFoundError, raised by open() or by the key test: the file is
\* written from the current changelog and the run ends with sys.exit(1)
LoadNotFound ==
    /\ pc = "load"
    /\ \/ file.kind = "absent"
       \/ file.kind = "dict" /\ ~HasShape(file)
    /\ \E w \in write_last_changes(file, changelog, now) :
          /\ file' = w.file
          /\ IF w.ok THEN pc' = "Seeded" /\ abortAt' = "" ELSE Abort("seed")
    /\ UNCHANGED <<backup, now, locals, file0, backup0, prev, marker_count, checksum_policy>>

\* JSONDecodeError: the file is renamed to .old (FileExistsError passed
\* over), then written from the current changelog; sys.exit(1)
LoadCorrupt ==
    /\ pc = "load"
    /\ file.kind = "corrupt"
    /\ \E r \in rename(file, backup) :
       \E w \in write_last_changes(r[1], changelog, now) :
          /\ backup' = r[2]
          /\ file' = w.file
          /\ IF w.ok THEN pc' = "Seeded" /\ abortAt' = "" ELSE Abort("seed")
    /\ UNCHANGED <<now, locals, file0, backup0, prev, marker_count, checksum_policy>>

\* the file holds JSON that is no object: .keys() raises AttributeError,
\* which no handler of load_last_changes catches
LoadNonDict ==
    /\ pc = "load"
    /\ file.kind = "nondict"
    /\ Abort("load")
    /\ UNCHANGED <<disk, now, locals, file0, backup0, prev, marker_count, checksum_policy>>

\* ---------------------------------------------------------------- test_for_update
\* mutant: a stale timestamp is raised as an error
TestRaises_stale == \/ last_changes_data.timestamp = BadTs
                    \/ changelog = <<>>
                    \/ last_changes_data.changes = <<>>
                    \/ Stale(now, last_changes_data.timestamp)
TestRaises == \/ last_changes_data.timestamp = BadTs      \* ValueError
              \/ changelog = <<>>                          \* IndexError
              \/ last_changes_data.changes = <<>>          \* IndexError

\* mutant: without an update the run ends at once, the file is not rewritten
TestForUpdate_skipsWrite ==
    /\ pc = "test"
    /\ ~TestRaises
    /\ warned' = Stale(now, last_changes_data.timestamp)
    /\ update_available' = hasUpdate(changelog, last_changes_data)
    /\ pc' = IF update_available' THEN "webhooks" ELSE "Done"
    /\ UNCHANGED <<disk, now, abortAt, changelog, last_changes_data,
                   webhooks, changes, report, file0, backup0, prev, marker_count, checksum_policy>>

TestForUpdate ==
    /\ pc = "test"
    /\ ~TestRaises
    /\ warned' = Stale(now, last_changes_data.timestamp)
    /\ update_available' = hasUpdate(changelog, last_changes_data)
    /\ pc' = IF update_available' THEN "webhooks" ELSE "write"
    /\ UNCHANGED <<disk, now, abortAt, changelog, last_changes_data,
                   webhooks, changes, report, file0, backup0, prev, marker_count, checksum_policy>>

TestForUpdateRaises ==
    /\ pc = "test"
    /\ TestRaises
    /\ warned' = (last_changes_data.timestamp # BadTs
                  /\ Stale(now, last_changes_data.timestamp))
    /\ Abort("test")
    /\ UNCHANGED <<disk, now, changelog, last_changes_data, update_available,
                   webhooks, changes, report, file0, backup0, prev, marker_count, checksum_policy>>

\* ---------------------------------------------------------------- send_update_message
\* webhooks = load_webhooks()
LoadWebhooksOk ==
    /\ pc = "webhooks"
    /\ \E ws \in WebhookLists : webhooks' = ws
    /\ pc' = "checksum"
    /\ UNCHANGED <<disk, now, abortAt, changelog, last_changes_data,
                   update_available, warned, changes, report, file0, backup0, prev, marker_count, checksum_policy>>

\* mutant: webhooks.json is read while the loop runs
LoadWebhooksFail_late ==
    /\ pc \in {"webhooks", "post"}
    /\ Abort("webhooks")
    /\ UNCHANGED <<disk, now, locals, file0, backup0, prev, marker_count, checksum_policy>>

\* webhooks.json missing or not JSON: sys.exit(1)
LoadWebhooksFail ==
    /\ pc = "webhooks"
    /\ Abort("webhooks")
    /\ UNCHANGED <<disk, now, locals, file0, backup0, prev, marker_count, checksum_policy>>

\* checksum = get_checksum(), then the loop that builds `changes`
GetChecksumOk ==
    /\ pc = "checksum"
    /\ changes' = newEntries(changelog, last_changes_data.changes)
    /\ pc' = IF webhooks = <<>> THEN "write" ELSE "post"
    /\ UNCHANGED <<disk, now, abortAt, changelog, last_changes_data,
                   update_available, warned, webhooks, report, file0, backup0, prev, marker_count, checksum_policy>>

\* mutant: the failure is fatal only when the configuration says so
GetChecksumFail_byPolicy ==
    /\ pc = "checksum"
    /\ \E p \in ChecksumPolicies :
          /\ checksum_policy' = p
          /\ IF p = "mandatory"
             THEN Abort("checksum") /\ changes' = changes
             ELSE /\ changes' = newEntries(changelog, last_changes_data.changes)
                  /\ pc' = IF webhooks = <<>> THEN "write" ELSE "post"
                  /\ abortAt' = abortAt
    /\ UNCHANGED <<disk, now, changelog, last_changes_data, update_available,
                   warned, webhooks, report, file0, backup0, prev, marker_count>>

\* mutant: the file is written before the exit
GetChecksumFail_writes ==
    /\ pc = "checksum"
    /\ \E p \in ChecksumPolicies : checksum_policy' = p
    /\ file' = Dumped(changelog, now)
    /\ Abort("checksum")
    /\ UNCHANGED <<backup, now, locals, file0, backup0, prev, marker_count>>

\* the md5sum download failed: sys.exit(1), whatever the configuration
\* holds (get_checksum reads none of it)
GetChecksumFail ==
    /\ pc = "checksum"
    /\ \E p \in ChecksumPolicies : checksum_policy' = p
    /\ Abort("checksum")
    /\ UNCHANGED <<disk, now, locals, file0, backup0, prev, marker_count>>

\* one iteration of `for webhook in webhooks`
Post ==
    /\ pc = "post"
    /\ webhooks[Len(report) + 1] = "ok"
    /\ \E o \in Outcomes :
          /\ report' = Append(report, [url |-> Len(report) + 1, outcome |-> o])
          /\ IF o \in Caught \cup {"Delivered"}
             THEN /\ pc' = IF Len(report') = Len(webhooks) THEN "write" ELSE "post"
                  /\ abortAt' = abortAt
             ELSE Abort("post")
    /\ UNCHANGED <<disk, now, changelog, last_changes_data,
                   update_available, warned, webhooks, changes, file0, backup0, prev, marker_count, checksum_policy>>

\* webhook["username"] raises KeyError before the POST
PostKeyError ==
    /\ pc = "post"
    /\ webhooks[Len(report) + 1] = "nokey"
    /\ Abort("record")
    /\ UNCHANGED <<disk, now, locals, file0, backup0, prev, marker_count, checksum_policy>>

\* ---------------------------------------------------------------- the final write
WriteLastChanges ==
    /\ pc = "write"
    /\ \E w \in write_last_changes(file, changelog, now) :
          /\ file' = w.file
          /\ IF w.ok THEN pc' = "Done" /\ abortAt' = "" ELSE Abort("write")
    /\ UNCHANGED <<backup, now, locals, file0, backup0, prev, marker_count, checksum_policy>>

Next ==
    \/ StartRun
    \/ DownloadFail
    \/ ParseHtmlOk
    \/ ParseHtmlFail
    \/ LoadOk
    \/ LoadNotFound
    \/ LoadCorrupt
    \/ LoadNonDict
    \/ TestForUpdate
    \/ TestForUpdateRaises
    \/ LoadWebhooksOk
    \/ LoadWebhooksFail
    \/ GetChecksumOk
    \/ GetChecksumFail
    \/ Post
    \/ PostKeyError
    \/ WriteLastChanges

Spec == Init /\ [][Next]_vars

\* ================================================================ claims

\* C1: a run that detected an update and made at least one delivery attempt
\* goes on to the final write whatever the outcome of each attempt, and the
\* next run over the same document makes no delivery attempt.
C1_AttemptedUpdateIsPersisted ==
    /\ (pc = "Aborted" /\ report # <<>>) => abortAt = "write"
    /\ (prev.wrote /\ prev.attempted /\ prev.changelog = changelog) => report = <<>>

\* C2: a timeout or a rejected POST for one subscriber never ends the run:
\* the loop goes on with the next record, every subscriber of a run that
\* reaches the final write was POSTed to, in order, and a completed run has
\* written the file.
C2_DeliveryFailureIsolated ==
    /\ (pc = "Aborted" /\ abortAt = "post")
           => report[Len(report)].outcome \notin {"TimedOut", "Rejected"}
    /\ pc = "post" => Len(report) < Len(webhooks)
    /\ (pc \in {"write", "Done"} /\ update_available)
           => /\ Len(report) = Len(webhooks)
              /\ \A k \in 1..Len(report) : report[k].url = k
    /\ pc = "Done" => file = Dumped(changelog, now)

\* C2 witness: the first subscriber timed out, the second was delivered to,
\* and the run completed with the file written
C2_Witness ==
    /\ pc = "Done"
    /\ Len(report) >= 2
    /\ report[1].outcome = "TimedOut"
    /\ report[2].outcome = "Delivered"
    /\ file = Dumped(changelog, now)

\* C3: a run over the changelog the previous run wrote declares no update
\* and POSTs to nobody; it loads the file the previous run left (it neither
\* seeds nor fails to load), and with a non-empty changelog only a failing
\* final write keeps it from completing.
C3_SecondRunNoChange ==
    (prev.wrote /\ prev.changelog = changelog)
        => /\ ~update_available
           /\ report = <<>>
           /\ pc \notin {"Seeded", "webhooks", "checksum", "post"}
           /\ (pc = "Aborted" /\ changelog # <<>>) => abortAt = "write"

\* C3 witness: two completed runs in a row over the same non-empty changelog
C3_Witness ==
    /\ prev.wrote /\ prev.changelog = changelog /\ changelog # <<>>
    /\ pc = "Done" /\ ~update_available /\ report = <<>>

\* C4: after a run that did not abort, the persisted entries are the
\* changelog the run extracted; their newest entries are equal.
C4_BaselineIsSnapshot ==
    pc \in {"Done", "Seeded"}
        => /\ file.kind = "dict" /\ file.keys = {"changes", "timestamp"}
           /\ Len(file.changes) = Len(changelog)
           /\ changelog # <<>> => file.changes[1] = changelog[1]
           /\ file.changes = changelog

\* C4 witness: a completed run replaced a baseline with another newest entry
C4_Witness ==
    /\ pc = "Done"
    /\ file0.kind = "dict" /\ file0.changes # <<>>
    /\ file0.changes[1] # changelog[1]
    /\ file.changes[1] = changelog[1]

\* C5: a run that finds no file or an unparsable one never reaches the
\* update test and POSTs to nobody; unless its write fails it ends with the
\* file written from the current changelog.
C5_SeedingNeverNotifies ==
    file0.kind \in {"absent", "corrupt"}
        => /\ report = <<>> /\ ~update_available
           /\ pc \in {"idle", "download", "load", "Seeded", "Aborted"}
           /\ pc = "Aborted" => abortAt \in {"download", "parse", "seed"}
           /\ pc = "Seeded" => file = Dumped(changelog, now)

\* C5 witness: a first run seeded the file from a non-empty changelog
C5_Witness ==
    /\ file0.kind = "absent" /\ pc = "Seeded"
    /\ changelog # <<>> /\ file = Dumped(changelog, now) /\ report = <<>>

\* C6 as claimed: whenever an unparsable file is recovered from, its content
\* is kept under the backup name and a fresh baseline is written.
C6_CorruptAlwaysPreserved ==
    (file0.kind = "corrupt" /\ pc = "Seeded")
        => backup = file0 /\ file = Dumped(changelog, now)

\* C6 amended: the content is kept under the backup name when no backup
\* existed; with a backup in place either the rename replaced it, or the
\* rename failed, the backup is as it was and the corrupt content is gone.
\* Either way the fresh baseline is written and nobody is POSTed to.
C6_CorruptPreservedUnlessBackupExists ==
    (file0.kind = "corrupt" /\ pc = "Seeded")
        => /\ file = Dumped(changelog, now)
           /\ report = <<>>
           /\ backup0.kind = "absent" => backup = file0
           /\ backup0.kind # "absent" => backup \in {file0, backup0}

\* C6 witness: a fresh backup was made of an unparsable file
C6_Witness ==
    /\ file0.kind = "corrupt" /\ backup0.kind = "absent" /\ pc = "Seeded"
    /\ backup = file0 /\ file = Dumped(changelog, now)

\* C7 as claimed: a JSON object without one of the two keys is moved to the
\* backup name before the fresh state is written.
C7_WrongShapeQuarantined ==
    (file0.kind = "dict" /\ file0.keys # {"changes", "timestamp"} /\ pc = "Seeded")
        => backup = file0

\* C7 amended: a JSON object without one of the two keys is handled as a
\* missing file (overwritten, no backup made, nobody POSTed to); JSON that is
\* no object ends the run with the file and the backup untouched.
C7_WrongShapeOverwritten ==
    /\ (file0.kind = "dict" /\ file0.keys # {"changes", "timestamp"})
        => /\ backup = backup0
           /\ report = <<>>
           /\ pc \in {"idle", "download", "load", "Seeded", "Aborted"}
           /\ pc = "Aborted" => abortAt \in {"download", "parse", "seed"}
           /\ pc = "Seeded" => file = Dumped(changelog, now)
    /\ file0.kind = "nondict"
        => /\ file = file0 /\ backup = backup0 /\ report = <<>>
           /\ pc \in {"idle", "download", "load", "Aborted"}

\* C7 witness: an object with only a timestamp was overwritten, no backup made
C7_Witness ==
    /\ file0.kind = "dict" /\ file0.keys = {"timestamp"} /\ pc = "Seeded"
    /\ file = Dumped(changelog, now) /\ backup = backup0 /\ backup # file0

\* C8: a run that failed while fetching the page or extracting the changelog
\* has left last_changes.json and its backup as they were.
C8_FetchFailureKeepsBaseline ==
    (pc = "Aborted" /\ abortAt \in {"download", "parse"})
        => file = file0 /\ backup = backup0 /\ report = <<>>

\* C8 witness: the extraction failed in a run after one that wrote a baseline
C8_Witness ==
    /\ pc = "Aborted" /\ abortAt = "parse"
    /\ prev.wrote /\ prev.changelog # <<>>
    /\ file.kind = "dict" /\ file.changes = prev.changelog

\* C9: in a run that passed the update test, an update is declared if and
\* only if the sequence of new entries is non-empty.
C9_UpdateIffNewEntries ==
    pc \in {"webhooks", "checksum", "post", "write", "Done"}
        => (update_available <=> newEntries(changelog, last_changes_data.changes) # <<>>)

\* C10: the update decision is whether the newest extracted entry differs
\* from the newest persisted entry, whatever the other entries and the time
\* since the last check.
C10_UpdateIffNewestDiffers ==
    pc \in {"webhooks", "checksum", "post", "write", "Done"}
        => (update_available <=> changelog[1] # last_changes_data.changes[1])

\* C10 witness: no update although the lists differ behind the newest entry
\* and the last check is more than an hour old
C10_Witness ==
    /\ pc = "Done" /\ ~update_available /\ warned
    /\ changelog # last_changes_data.changes
    /\ changelog[1] = last_changes_data.changes[1]

\* the text of a list of entries, one per line
RECURSIVE JoinedLines(_)
JoinedLines(entries) ==
    IF entries = <<>> THEN <<>>
    ELSE Head(entries) \o <<WS>> \o JoinedLines(Tail(entries))

Recorded(entry, old_changelog) == \E k \in 1..Len(old_changelog) : old_changelog[k] = entry

\* C11: the entries put in the message are the longest prefix of the
\* changelog without an entry of the persisted list; the whole changelog
\* when none of its entries is persisted.
C11_NewEntriesLongestFreshPrefix ==
    (pc = "post" \/ (update_available /\ pc \in {"write", "Done"}))
        => \E k \in 0..Len(changelog) :
              /\ changes = JoinedLines(SubSeq(changelog, 1, k))
              /\ \A j \in 1..k : ~Recorded(changelog[j], last_changes_data.changes)
              /\ k < Len(changelog) => Recorded(changelog[k + 1], last_changes_data.changes)

\* C11 witness: of two extracted entries the second is persisted and only
\* the first is announced
C11_Witness ==
    /\ pc = "post"
    /\ Len(changelog) = 2
    /\ Recorded(changelog[2], last_changes_data.changes)
    /\ ~Recorded(changelog[1], last_changes_data.changes)
    /\ changes = changelog[1] \o <<WS>>

C13_TwoMarkersRejected ==
    marker_count = 2 => (pc = "Aborted" /\ abortAt = "parse" /\ report = <<>>)

C15_NoChangeStillWrites ==
    (~update_available /\ pc \in {"write", "Done"})
        => /\ report = <<>> /\ webhooks = <<>>
           /\ pc = "Done" => (file.changes = changelog /\ file.timestamp = now)

\* C15 witness: a completed run without update refreshed an older timestamp
C15_Witness ==
    /\ pc = "Done" /\ ~update_available /\ report = <<>>
    /\ file0.timestamp < now /\ file.timestamp = now

\* C16: a run ended by the download, the extraction, the state file or an
\* unreadable webhooks.json has POSTed to nobody.
C16_ErrorsBeforeDelivery ==
    (pc = "Seeded"
     \/ (pc = "Aborted" /\ abortAt \in {"download", "parse", "load", "seed", "test", "webhooks"}))
        => report = <<>>

\* C16 witness: an update was detected and webhooks.json could not be read
C16_Witness ==
    /\ pc = "Aborted" /\ abortAt = "webhooks"
    /\ update_available /\ report = <<>>

\* C17: a changelog that was extracted is non-empty, and so are the entries
\* a run has written to the file.
C17_SnapshotNonEmpty ==
    /\ pc \in {"load", "test", "webhooks", "checksum", "post", "write", "Done", "Seeded"}
           => changelog # <<>>
    /\ pc \in {"Done", "Seeded"} => file.changes # <<>>

\* C18: the staleness warning is logged exactly when the last check is more
\* than an hour old and changes nothing else: the update test fails only on
\* an unparsable timestamp or an empty list, and its decision is the
\* comparison of the newest entries, warning or not.
C18_StalenessOnlyWarns ==
    /\ (pc = "Aborted" /\ abortAt = "test")
           => \/ last_changes_data.timestamp = BadTs
              \/ changelog = <<>>
              \/ last_changes_data.changes = <<>>
    /\ pc \in {"webhooks", "checksum", "post", "write", "Done"}
           => /\ warned = (now - last_changes_data.timestamp > 1)
              /\ warned => (update_available <=> changelog[1] # last_changes_data.changes[1])

\* C18 witness: a run that logged the warning announced an update and
\* completed
C18_Witness ==
    /\ pc = "Done" /\ warned /\ update_available
    /\ report # <<>> /\ file = Dumped(changelog, now)

\* C19: a run that detected an update and ended on webhooks.json or on the
\* checksum has POSTed to nobody and left the file as it was, so that the
\* newest persisted entry still differs from the newest extracted one.
C19_UpdateNotLostBeforeDelivery ==
    (pc = "Aborted" /\ abortAt \in {"webhooks", "checksum"})
        => /\ update_available /\ report = <<>>
           /\ file = file0 /\ backup = backup0
           /\ file.kind = "dict" /\ file.keys = {"changes", "timestamp"}
           /\ file.timestamp # BadTs
           /\ file.changes # <<>> /\ changelog # <<>>
           /\ file.changes[1] # changelog[1]

\* C19 witness: the checksum download failed with subscribers loaded and
\* the baseline still behind the page
C19_Witness ==
    /\ pc = "Aborted" /\ abortAt = "checksum" /\ webhooks # <<>>
    /\ file = file0 /\ file.changes[1] # changelog[1]

\* C20: a run that extracted a non-empty changelog never ends on the load
\* of the state file or on the update test, whatever the file holds.
C20_RecoversFromAnyStateFile ==
    (pc = "Aborted" /\ changelog # <<>>) => abortAt \notin {"load", "test"}

====
